---- MODULE Spec2Model ----
(***************************************************************************)
(* A model of src/favicon/favicon.py: FaviconManager.get and the helpers   *)
(* it calls (default, tags, dimensions, is_absolute), and validate_url.    *)
(*                                                                         *)
(* Python str values are TLA+ strings; a character is a string of length   *)
(* one.  The module is kept in ASCII, so the one non-ASCII character the   *)
(* source names, U+00D7 (the multiplication sign of the pattern            *)
(* r'[x\xd7]'), is written MULT and carries its own code point in Ord.     *)
(* A BeautifulSoup Tag is a record [name, attrs], attrs a function from    *)
(* the names of the attributes present to their values.  A value computed  *)
(* once and used several times is handed to a helper operator as argument. *)
(***************************************************************************)
EXTENDS Integers, Sequences, FiniteSets, TLC

VARIABLES
    url,           \* get's argument url
    biggest,       \* get's argument biggest
    pc,            \* where the call is: call, await_get, await_head, returned, raised
    requests,      \* the calls made to the HTTP client so far, in order
    response,      \* get's response: the page GET's response, None before it
    probe,         \* default's response: the HEAD's response, None before it
    default_icon,  \* get's default_icon
    icons,         \* get's icons, in the order sorted() iterates the set
    result,        \* get's result: the sorted list
    result_,       \* get's result_: the value returned
    error,         \* the exception get raised, "" when none
    prev,          \* the previous call on the same page, None when there is none
    dtag,          \* the tag dimensions is applied to on its own
    dres           \* what dimensions gave for dtag

vars == <<url, biggest, pc, requests, response, probe, default_icon, icons,
          result, result_, error, prev, dtag, dres>>

(***************************************************************************)
(* Bounds of the model.                                                    *)
(***************************************************************************)
\* The largest number of distinct elements of a parsed page.
MaxTags == 2
\* The longest sizes attribute drawn exhaustively for dimensions.
MaxSizesLen == 6
\* The longest href drawn exhaustively for dimensions.
MaxHrefLen == 7

(***************************************************************************)
(* Python str operations.                                                  *)
(***************************************************************************)
None == [None |-> TRUE]

Char(s, i) == SubSeq(s, i, i)

Rest(s, i) == SubSeq(s, i, Len(s))

Range(f) == {f[i] : i \in DOMAIN f}

MULT == "*"

UPPER == "ABCDEFGHIJKLMNOPQRSTUVWXYZ"

LOWER == "abcdefghijklmnopqrstuvwxyz"

DIGITS == "0123456789"

\* The characters of the model's strings, in code point order, and their
\* code points.
CHARS == "\t\n #,-./0123456789:;=?ABCDEFGHIJKLMNOPQRSTUVWXYZ_abcdefghijklmnopqrstuvwxyz"

CODES == <<9, 10, 32, 35, 44, 45, 46, 47, 48, 49, 50, 51, 52, 53, 54, 55, 56, 57,
           58, 59, 61, 63, 65, 66, 67, 68, 69, 70, 71, 72, 73, 74, 75, 76, 77, 78,
           79, 80, 81, 82, 83, 84, 85, 86, 87, 88, 89, 90, 95, 97, 98, 99, 100, 101,
           102, 103, 104, 105, 106, 107, 108, 109, 110, 111, 112, 113, 114, 115,
           116, 117, 118, 119, 120, 121, 122>>

\* The index of character c in s, 0 when it is not there.
IndexIn(s, c) ==
    IF \E i \in 1..Len(s) : SubSeq(s, i, i) = c
    THEN CHOOSE i \in 1..Len(s) : SubSeq(s, i, i) = c
    ELSE 0

\* ord(c)
Ord(c) == IF c = MULT THEN 215 ELSE CODES[IndexIn(CHARS, c)]

\* c.isdigit()
IsDigit(c) == c \in {"0", "1", "2", "3", "4", "5", "6", "7", "8", "9"}

\* c.isalpha()
IsAlpha(c) == \E i \in 1..26 : c = SubSeq(LOWER, i, i) \/ c = SubSeq(UPPER, i, i)

LowerAt(c, i) == IF i > 0 THEN SubSeq(LOWER, i, i) ELSE c

\* c.lower()
LowerChar(c) == LowerAt(c, IndexIn(UPPER, c))

RECURSIVE Lower(_)
\* s.lower()
Lower(s) == IF s = "" THEN "" ELSE LowerChar(Char(s, 1)) \o Lower(Rest(s, 2))

\* s.startswith(p)
StartsWith(s, p) == Len(s) >= Len(p) /\ SubSeq(s, 1, Len(p)) = p

\* The least index of a character of s that is in cs, 0 when there is none.
FindAny(s, cs) ==
    IF \E i \in 1..Len(s) : Char(s, i) \in cs
    THEN CHOOSE i \in 1..Len(s) :
            /\ Char(s, i) \in cs
            /\ \A j \in 1..(i - 1) : Char(s, j) \notin cs
    ELSE 0

\* The greatest index of a character of s that is in cs, 0 when there is none.
RFindAny(s, cs) ==
    IF \E i \in 1..Len(s) : Char(s, i) \in cs
    THEN CHOOSE i \in 1..Len(s) :
            /\ Char(s, i) \in cs
            /\ \A j \in (i + 1)..Len(s) : Char(s, j) \notin cs
    ELSE 0

\* s cut at index i: <<s>> when i is 0, else what is before i and what is after.
CutAt(s, i) ==
    IF i = 0 THEN <<s>> ELSE <<SubSeq(s, 1, i - 1), SubSeq(s, i + 1, Len(s))>>

RECURSIVE SplitRest(_, _)
\* s.split(sep) and re.split('[..]', s): the pieces between the separators,
\* the empty ones included.
SplitOn(s, cs) == SplitRest(CutAt(s, FindAny(s, cs)), cs)

SplitRest(cut, cs) ==
    IF Len(cut) = 1 THEN cut
    ELSE <<cut[1]>> \o SplitRest(CutAt(cut[2], FindAny(cut[2], cs)), cs)

RECURSIVE JoinWith(_, _)
\* sep.join(parts)
JoinWith(parts, sep) ==
    IF parts = <<>> THEN ""
    ELSE IF Len(parts) = 1 THEN parts[1]
    ELSE parts[1] \o sep \o JoinWith(Tail(parts), sep)

WHITESPACE == {" ", "\t", "\n", "\r", "\f"}

RECURSIVE LStrip(_)
LStrip(s) == IF s # "" /\ Char(s, 1) \in WHITESPACE THEN LStrip(Rest(s, 2)) ELSE s

RECURSIVE RStrip(_)
RStrip(s) ==
    IF s # "" /\ Char(s, Len(s)) \in WHITESPACE
    THEN RStrip(SubSeq(s, 1, Len(s) - 1)) ELSE s

\* s.strip()
Strip(s) == RStrip(LStrip(s))

RECURSIVE StrLess(_, _)
\* a < b on str: by code point, a proper prefix first.
StrLess(a, b) ==
    IF b = "" THEN FALSE
    ELSE IF a = "" THEN TRUE
    ELSE IF Char(a, 1) # Char(b, 1) THEN Ord(Char(a, 1)) < Ord(Char(b, 1))
    ELSE StrLess(Rest(a, 2), Rest(b, 2))

RECURSIVE Digits(_)
\* ''.join(c for c in s if c.isdigit())
Digits(s) ==
    IF s = "" THEN ""
    ELSE (IF IsDigit(Char(s, 1)) THEN Char(s, 1) ELSE "") \o Digits(Rest(s, 2))

DigitVal(c) == IndexIn(DIGITS, c) - 1

RECURSIVE int(_)
\* int(s) of a non-empty string of digits; int('') raises ValueError, which
\* is decided where int is used.
int(s) ==
    IF Len(s) = 1 THEN DigitVal(s)
    ELSE 10 * int(SubSeq(s, 1, Len(s) - 1)) + DigitVal(Char(s, Len(s)))

RECURSIVE InsertStrDesc(_, _)
\* x put into the descending list s after every element that is not smaller.
InsertStrDesc(s, x) ==
    IF s = <<>> THEN <<x>>
    ELSE IF StrLess(Head(s), x) THEN <<x>> \o s
    ELSE <<Head(s)>> \o InsertStrDesc(Tail(s), x)

RECURSIVE SortStrDesc(_)
\* size.sort(reverse=True) on a list of str.
SortStrDesc(s) ==
    IF s = <<>> THEN <<>>
    ELSE InsertStrDesc(SortStrDesc(SubSeq(s, 1, Len(s) - 1)), s[Len(s)])

(***************************************************************************)
(* FaviconManager.dimensions                                               *)
(***************************************************************************)
\* tag.get(k) is not None
Has(tag, k) == k \in DOMAIN tag.attrs

\* tag.get(k, '')
Get(tag, k) == IF Has(tag, k) THEN tag.attrs[k] ELSE ""

\* What a call gives: the value returned, or the exception raised.
Returned(w, h) == [exc |-> "", width |-> w, height |-> h]

Raised(e) == [exc |-> e, width |-> 0, height |-> 0]

\* SIZE_RE matches s at i with a width of k and a height of m digits.
SizeReAt(s, i, k, m) ==
    /\ i + k + m <= Len(s)
    /\ \A j \in i..(i + k - 1) : IsDigit(Char(s, j))
    /\ Char(s, i + k) \in {"x", "X"}
    /\ \A j \in (i + k + 1)..(i + k + m) : IsDigit(Char(s, j))

\* Every way SIZE_RE matches somewhere in s: <<start, width digits, height digits>>.
SizeReMatches(s) ==
    {t \in (1..Len(s)) \X (2..4) \X (2..4) : SizeReAt(s, t[1], t[2], t[3])}

Min(S) == CHOOSE a \in S : \A b \in S : a <= b

Max(S) == CHOOSE a \in S : \A b \in S : b <= a

\* The match object: its groups width and height.
SizeReGroups(s, i, k, m) ==
    <<[width |-> SubSeq(s, i, i + k - 1), height |-> SubSeq(s, i + k + 1, i + k + m)]>>

\* \d{2,4} is greedy: the longest height for the start and the width chosen.
SizeReHeight(s, M, i, k) ==
    SizeReGroups(s, i, k, Max({t[3] : t \in {v \in M : v[1] = i /\ v[2] = k}}))

\* \d{2,4} is greedy: the longest width for the start chosen.
SizeReWidth(s, M, i) ==
    SizeReHeight(s, M, i, Max({t[2] : t \in {v \in M : v[1] = i}}))

\* search() takes the leftmost start.
SizeReFirst(s, M) ==
    IF M = {} THEN <<>> ELSE SizeReWidth(s, M, Min({t[1] : t \in M}))

\* SIZE_RE.search(s): <<>> for None, else <<the match's groups>>.
SIZE_RE_search(s) == SizeReFirst(s, SizeReMatches(s))

\* Line 201: int(width), int(height) of the digit strings.
IntPair(w, h) ==
    IF w = "" \/ h = "" THEN Raised("ValueError") ELSE Returned(int(w), int(h))

\* Lines 198-201.
ToInts(width, height) == IntPair(Digits(width), Digits(height))

\* Line 189: width, height = the parts; the unpacking raises ValueError
\* unless there are exactly two.
FromParts(parts) ==
    IF Len(parts) # 2 THEN Raised("ValueError") ELSE ToInts(parts[1], parts[2])

\* Lines 187-189.
FromSizes(sizes) ==
    FromParts(SplitOn(SortStrDesc(SplitOn(sizes, {" "}))[1], {"x", MULT}))

\* Lines 193-196.
FromMatch(size) ==
    IF size # <<>> THEN ToInts(size[1].width, size[1].height) ELSE ToInts("0", "0")

\* Lines 191-196: filename = href or content; search(None) raises TypeError.
FromFilename(tag) ==
    IF Get(tag, "href") = "" /\ ~Has(tag, "content") THEN Raised("TypeError")
    ELSE FromMatch(SIZE_RE_search(IF Get(tag, "href") # "" THEN Get(tag, "href")
                                  ELSE Get(tag, "content")))

DimensionsOf(tag, sizes) ==
    IF sizes # "" /\ sizes # "any" THEN FromSizes(sizes) ELSE FromFilename(tag)

\* FaviconManager.dimensions
dimensions(tag) == DimensionsOf(tag, Get(tag, "sizes"))

(***************************************************************************)
(* urllib.parse and os.path, on the URLs of the model: no user:password@,  *)
(* no port, no '..' or '.' path segment.                                   *)
(***************************************************************************)
SCHEME_CHARS == {SubSeq(LOWER, i, i) : i \in 1..26} \cup {SubSeq(UPPER, i, i) : i \in 1..26}
                \cup {SubSeq(DIGITS, i, i) : i \in 1..10} \cup {"+", "-", "."}

\* The schemes of urllib.parse.uses_params, uses_relative and uses_netloc
\* that the model's URLs can carry.
USES_PARAMS == {"", "http", "https", "ftp"}

USES_RELATIVE == {"", "http", "https", "ftp", "file"}

USES_NETLOC == {"", "http", "https", "ftp", "file"}

ParseResult(scheme, netloc, pathParams, query, fragment) ==
    [scheme |-> scheme, netloc |-> netloc, path |-> pathParams[1],
     params |-> pathParams[2], query |-> query, fragment |-> fragment]

\* urllib.parse._splitparams: the ';' looked for after the last '/'.
SplitParamsAt(u, slash, semi) ==
    IF semi = 0 THEN <<u, "">>
    ELSE <<SubSeq(u, 1, slash + semi - 1), Rest(u, slash + semi + 1)>>

SplitParamsFrom(u, slash) == SplitParamsAt(u, slash, FindAny(Rest(u, slash + 1), {";"}))

SplitParams(u) == SplitParamsFrom(u, RFindAny(u, {"/"}))

ParseParams(scheme, netloc, u, query, fragment) ==
    ParseResult(scheme, netloc,
                IF scheme \in USES_PARAMS THEN SplitParams(u) ELSE <<u, "">>,
                query, fragment)

ParseQueryAt(scheme, netloc, u, fragment, qm) ==
    ParseParams(scheme, netloc,
                IF qm = 0 THEN u ELSE SubSeq(u, 1, qm - 1),
                IF qm = 0 THEN "" ELSE Rest(u, qm + 1),
                fragment)

ParseQuery(scheme, netloc, u, fragment) ==
    ParseQueryAt(scheme, netloc, u, fragment, FindAny(u, {"?"}))

ParseFragmentAt(scheme, netloc, u, hash) ==
    ParseQuery(scheme, netloc,
               IF hash = 0 THEN u ELSE SubSeq(u, 1, hash - 1),
               IF hash = 0 THEN "" ELSE Rest(u, hash + 1))

ParseFragment(scheme, netloc, u) ==
    ParseFragmentAt(scheme, netloc, u, FindAny(u, {"#"}))

\* _splitnetloc: the netloc runs to the first of '/', '?', '#'.
ParseNetlocAt(scheme, u, delim) ==
    ParseFragment(scheme,
                  IF delim = 0 THEN u ELSE SubSeq(u, 1, delim - 1),
                  IF delim = 0 THEN "" ELSE Rest(u, delim))

ParseNetloc(scheme, u) ==
    IF StartsWith(u, "//")
    THEN ParseNetlocAt(scheme, Rest(u, 3), FindAny(Rest(u, 3), {"/", "?", "#"}))
    ELSE ParseFragment(scheme, "", u)

HasScheme(u, colon) ==
    /\ colon > 1
    /\ IsAlpha(Char(u, 1))
    /\ \A j \in 1..(colon - 1) : Char(u, j) \in SCHEME_CHARS

ParseSchemeAt(u, default, colon, hasScheme) ==
    ParseNetloc(IF hasScheme THEN Lower(SubSeq(u, 1, colon - 1)) ELSE default,
                IF hasScheme THEN Rest(u, colon + 1) ELSE u)

ParseScheme(u, default, colon) == ParseSchemeAt(u, default, colon, HasScheme(u, colon))

\* urllib.parse.urlparse(u, scheme=default)
urlparse(u, default) == ParseScheme(u, default, FindAny(u, {":"}))

UnparseFragment(p, u) == IF p.fragment # "" THEN u \o "#" \o p.fragment ELSE u

UnparseQuery(p, u) == UnparseFragment(p, IF p.query # "" THEN u \o "?" \o p.query ELSE u)

UnparseScheme(p, u) == UnparseQuery(p, IF p.scheme # "" THEN p.scheme \o ":" \o u ELSE u)

UnparseNetloc(p, u) ==
    UnparseScheme(p,
        IF p.netloc # ""
           \/ (p.scheme # "" /\ p.scheme \in USES_NETLOC /\ ~StartsWith(u, "//"))
        THEN "//" \o p.netloc \o (IF u # "" /\ ~StartsWith(u, "/") THEN "/" ELSE "") \o u
        ELSE u)

\* urllib.parse.urlunparse, which ParseResult.geturl() calls.
urlunparse(p) ==
    UnparseNetloc(p, IF p.params # "" THEN p.path \o ";" \o p.params ELSE p.path)

\* base_parts of urljoin: the base path's segments without the last one,
\* which is no directory.
BaseParts(bp) == IF bp[Len(bp)] # "" THEN SubSeq(bp, 1, Len(bp) - 1) ELSE bp

\* segments[1:-1] = filter(None, segments[1:-1])
DropEmptyInside(all) ==
    IF Len(all) < 2 THEN all
    ELSE <<all[1]>> \o SelectSeq(SubSeq(all, 2, Len(all) - 1), LAMBDA x : x # "")
         \o <<all[Len(all)]>>

NonEmptyPath(joined) == IF joined = "" THEN "/" ELSE joined

\* The path urljoin resolves a relative reference's path to.
MergePath(bpath, path) ==
    NonEmptyPath(JoinWith(
        IF StartsWith(path, "/") THEN SplitOn(path, {"/"})
        ELSE DropEmptyInside(BaseParts(SplitOn(bpath, {"/"})) \o SplitOn(path, {"/"})),
        "/"))

\* The parts of the joined url when the reference has no netloc.
Merged(b, r) ==
    IF r.path = "" /\ r.params = ""
    THEN [r EXCEPT !.netloc = b.netloc, !.path = b.path, !.params = b.params,
                   !.query = IF r.query = "" THEN b.query ELSE r.query]
    ELSE [r EXCEPT !.netloc = b.netloc, !.path = MergePath(b.path, r.path)]

JoinParsed(base, u, b, r) ==
    IF u = "" THEN base
    ELSE IF r.scheme # b.scheme \/ r.scheme \notin USES_RELATIVE THEN u
    ELSE IF r.scheme \in USES_NETLOC /\ r.netloc # "" THEN urlunparse(r)
    ELSE urlunparse(Merged(b, r))

JoinBase(base, u, b) == JoinParsed(base, u, b, urlparse(u, b.scheme))

\* urllib.parse.urljoin(base, u), for a base with a scheme and a netloc.
urljoin(base, u) == JoinBase(base, u, urlparse(base, ""))

SplitExtAt(p, sepIndex, dotIndex) ==
    IF dotIndex > sepIndex
       /\ \E j \in (sepIndex + 1)..(dotIndex - 1) : Char(p, j) # "."
    THEN Rest(p, dotIndex)
    ELSE ""

\* os.path.splitext(p)[1]
splitext(p) == SplitExtAt(p, RFindAny(p, {"/"}), RFindAny(p, {"."}))

\* all([result.scheme, result.netloc])
BothSet(r) == r.scheme # "" /\ r.netloc # ""

\* FaviconManager.validate_url
validate_url(u) == BothSet(urlparse(u, ""))

\* FaviconManager.is_absolute
is_absolute(u) == urlparse(u, "").netloc # ""

(***************************************************************************)
(* The Icon dataclass, and a Python set held as the list of its elements:  *)
(* add() keeps one element per value.                                      *)
(***************************************************************************)
Icon(u, w, h, f) == [url |-> u, width |-> w, height |-> h, format |-> f]

\* SetAdd as it would be were the collection a list: every element kept.
SetAddKeepAll(s, x) == Append(s, x)

\* set.add(x), Icon.__eq__ comparing the four fields.
SetAdd(s, x) == IF x \in Range(s) THEN s ELSE Append(s, x)

RECURSIVE SetUpdate(_, _)
\* set.update(xs)
SetUpdate(s, xs) ==
    IF xs = <<>> THEN s ELSE SetUpdate(SetAdd(s, Head(xs)), Tail(xs))

\* x, then the elements of S that are not x.
RECURSIVE SetToSeq(_)
PutFirst(S, x) == <<x>> \o SetToSeq(S \ {x})

\* The elements of a set, one after the other.
SetToSeq(S) == IF S = {} THEN <<>> ELSE PutFirst(S, CHOOSE y \in S : TRUE)

\* The orders a set holding the n elements of s can be iterated in.
IterationsOf(s, n) ==
    {[i \in 1..n |-> s[p[i]]] :
        p \in {q \in [1..n -> 1..n] : \A i, j \in 1..n : q[i] = q[j] => i = j}}

Iterations(s) == IterationsOf(s, Len(s))

(***************************************************************************)
(* FaviconManager.tags                                                     *)
(***************************************************************************)
\* settings.ini [favicon] LINK_RELS and META_NAMES.
LINK_RELS == {"icon", "shortcut icon", "apple-touch-icon", "apple-touch-icon-precomposed"}

META_NAMES == {"msapplication-TileImage", "og:image"}

\* The values BeautifulSoup holds for a rel attribute: its whitespace-separated words.
Words(s) == SelectSeq(SplitOn(s, WHITESPACE), LAMBDA x : x # "")

\* lambda r: r and r.lower() == rel, which BeautifulSoup tries on each value
\* of the attribute, then on the values joined by a space.
RelIn(vals, rel) ==
    \/ \E i \in 1..Len(vals) : Lower(vals[i]) = rel
    \/ (vals # <<>> /\ Lower(JoinWith(vals, " ")) = rel)

RelMatches(tag, rel) == Has(tag, "rel") /\ RelIn(Words(tag.attrs["rel"]), rel)

\* Lines 115-119.
link_tags(html) ==
    {t \in html : /\ t.name = "link"
                  /\ Has(t, "href")
                  /\ \E rel \in LINK_RELS : RelMatches(t, rel)}

\* Lines 122-123: (name or property or '').lower()
meta_type(tag) ==
    Lower(IF Get(tag, "name") # "" THEN Get(tag, "name") ELSE Get(tag, "property"))

\* Lines 121-126.
meta_tags(html) ==
    {t \in html : /\ t.name = "meta"
                  /\ Has(t, "content")
                  /\ \E name \in META_NAMES : meta_type(t) = Lower(name)}

\* Lines 129-130: (href or content).strip()
TagHref(tag) ==
    Strip(IF Get(tag, "href") # "" THEN Get(tag, "href") ELSE Get(tag, "content"))

SkippedHref(href) == href = "" \/ StartsWith(href, "data:image/")

\* Lines 132-133: the continue of the loop body.
Skipped(tag) == SkippedHref(TagHref(tag))

\* Lines 145-147: the Icon, or the exception dimensions raised.
IconOf(url_parsed, dim) ==
    [exc |-> dim.exc,
     icon |-> Icon(urlunparse(url_parsed), dim.width, dim.height,
                   Lower(Rest(splitext(url_parsed.path), 2)))]

\* Lines 135-144.
IconAt(u, tag, href) ==
    IconOf(urlparse(IF is_absolute(href) THEN href ELSE urljoin(u, href),
                    urlparse(u, "").scheme),
           dimensions(tag))

\* The loop body for a tag that is not skipped.
TagIcon(u, tag) == IconAt(u, tag, TagHref(tag))

\* The end of tags: the exception of the first tag that raised, or the set.
TagsOf(built) ==
    IF \E i \in 1..Len(built) : built[i].exc # ""
    THEN [exc |-> built[Min({i \in 1..Len(built) : built[i].exc # ""})].exc,
          icons |-> <<>>]
    ELSE [exc |-> "", icons |-> SetUpdate(<<>>, [i \in 1..Len(built) |-> built[i].icon])]

TagsIn(u, todo) == TagsOf([i \in 1..Len(todo) |-> TagIcon(u, todo[i])])

\* tags(url, html): the exception raised, or the set of Icons.  What the set
\* holds does not depend on the order the tags are taken in.
tags(u, html) ==
    TagsIn(u, SelectSeq(SetToSeq(link_tags(html) \cup meta_tags(html)),
                        LAMBDA t : ~Skipped(t)))

(***************************************************************************)
(* FaviconManager.default and the end of FaviconManager.get                *)
(***************************************************************************)
FaviconOf(parsed) ==
    urlunparse([scheme |-> parsed.scheme, netloc |-> parsed.netloc,
                path |-> "favicon.ico", params |-> "", query |-> "",
                fragment |-> ""])

\* favicon_url as it would be were the path not replaced but joined to the
\* page's url.
favicon_urlJoined(u) == urljoin(u, "favicon.ico")

\* Lines 161-163: favicon_url of default(url).
favicon_url(u) == FaviconOf(urlparse(u, ""))

\* Lines 166-167: what default returns for the HEAD's response.
DefaultIcon(head) ==
    IF head.status_code = 200 THEN Icon(head.url, 0, 0, "ico") ELSE None

\* Lines 74-82: icons once the default icon and the tags' icons are in.
Collected(dflt, link_icons) ==
    SetUpdate(IF dflt # None THEN SetAdd(<<>>, dflt) ELSE <<>>, link_icons)

\* SortKey as it would be without the squareness: the size alone.
SortKeySizeOnly(i) == <<TRUE, i.width + i.height>>

\* The sort key of get: (i.width == i.height, i.width + i.height)
SortKey(i) == <<i.width = i.height, i.width + i.height>>

\* a < b on the key tuples, False < True.
KeyLess(a, b) == \/ (~a[1] /\ b[1])
                 \/ (a[1] = b[1] /\ a[2] < b[2])

RECURSIVE InsertIconDesc(_, _)
InsertIconDesc(s, x) ==
    IF s = <<>> THEN <<x>>
    ELSE IF KeyLess(SortKey(Head(s)), SortKey(x)) THEN <<x>> \o s
    ELSE <<Head(s)>> \o InsertIconDesc(Tail(s), x)

RECURSIVE sorted(_)
\* sorted(icons, key=..., reverse=True): descending and stable, Icons with
\* equal keys staying in the order the set was iterated in.
sorted(s) ==
    IF s = <<>> THEN <<>>
    ELSE InsertIconDesc(sorted(SubSeq(s, 1, Len(s) - 1)), s[Len(s)])

\* The empty dict.
EmptyDict == <<>>

\* Returns as it would be with the ranks counted from 1 and the largest
\* taken from the end of the list.
ReturnsFromOne(res, big) ==
    IF res = <<>> THEN EmptyDict
    ELSE IF big THEN res[Len(res)]
    ELSE [favicons |-> [i \in 1..Len(res) |-> res[i]]]

\* Lines 87-98 of get: the value returned for the sorted list.
Returns(res, big) ==
    IF res = <<>> THEN EmptyDict
    ELSE IF big THEN res[1]
    ELSE [favicons |-> [i \in 0..(Len(res) - 1) |-> res[i + 1]]]

(***************************************************************************)
(* The inputs of the model: the urls get is called with, and the pages,    *)
(* redirects and statuses the network answers with.                        *)
(***************************************************************************)
Link(rel, href) == [name |-> "link", attrs |-> [rel |-> rel, href |-> href]]

LinkSized(rel, href, sizes) ==
    [name |-> "link", attrs |-> [rel |-> rel, href |-> href, sizes |-> sizes]]

Meta(key, val, content) ==
    [name |-> "meta", attrs |-> (key :> val) @@ [content |-> content]]

\* The elements a page is made of.
TAGS ==
    { LinkSized("icon", "/a.png", "32x32"),
      LinkSized("icon", " /a.png ", "16x16 32x32"),
      LinkSized("icon", "/d.png", "32x32"),
      LinkSized("apple-touch-icon", "/c.png", "64x32"),
      LinkSized("icon", "/f.png", "large"),
      Link("shortcut icon", "b-16x16.png"),
      Link("ICON", "/c.png"),
      Link("icon", "/favicon.ico"),
      Link("icon", "data:image/png;base64,AA"),
      Link("stylesheet", "/s.css"),
      Meta("property", "og:image", "/c.png"),
      Meta("name", "msapplication-TileImage", "//cdn.io/t-144x144.png"),
      [name |-> "meta",
       attrs |-> [name |-> "foo", property |-> "og:image", content |-> "/e.png"]] }

\* A parsed page: the set of its distinct elements (tags() puts what
\* find_all gives into sets, so neither order nor repetition reaches it).
PAGES == {S \in SUBSET TAGS : Cardinality(S) <= MaxTags}

URLS == {"http://a.io/p/x", "https://b.io/", "a.io/p", "http://"}

\* response.url of the GET: the url asked for, or where it redirects to.
FinalUrls(u) == {u, "https://b.io/"}

GET_STATUS == {200, 404, 503}

HEAD_STATUS == {200, 404}

\* response.url of the HEAD: the url asked for, or where it redirects to.
HeadUrls(u) == {u, "https://cdn.io/favicon.ico"}

\* The HEAD's responses to a request for u.
HeadResponses(u) ==
    {[exc |-> "", status_code |-> st, url |-> hu] : st \in HEAD_STATUS, hu \in HeadUrls(u)}

\* response.raise_for_status() raises.
IsHTTPError(status) == 400 <= status /\ status < 600

Request(m, u) == [method |-> m, url |-> u]

RECURSIVE Strs(_, _)
\* S, and each of its strings with one more character of A.
Longer(S, A) == S \cup {s \o c : s \in S, c \in A}

\* The strings over A of at most n characters.
Strs(A, n) == IF n = 0 THEN {""} ELSE Longer(Strs(A, n - 1), A)

\* The tags dimensions is applied to on its own: every sizes value over
\* digits, the separator and the space, every href over digits, the
\* separator and a letter, and the values of the docstrings and comments.
DIM_TAGS ==
    {LinkSized("icon", "a.png", s) : s \in Strs({"1", "2", "x", " "}, MaxSizesLen)}
    \cup {Link("icon", h) : h \in Strs({"1", "x", "a"}, MaxHrefLen) \ {""}}
    \cup {LinkSized("icon", "a-48x48.png", s) :
            s \in {"any", "large", "32x32x32", "32x32 16x16", "16x16 32x32 64x64",
                   "16x16\t32x32", "32" \o MULT \o "32", "32X32", "32x32.png"}}
    \cup {Meta("name", "msapplication-TileImage", c) :
            c \in {"favicon.png", "t-144x144.png", "t-12345X67.png"}}

(***************************************************************************)
(* FaviconManager.get as a state machine: one action per await.            *)
(***************************************************************************)
Init ==
    /\ url \in URLS
    /\ biggest \in BOOLEAN
    /\ pc = "call"
    /\ requests = <<>>
    /\ response = None
    /\ probe = None
    /\ default_icon = None
    /\ icons = <<>>
    /\ result = None
    /\ result_ = None
    /\ error = ""
    /\ prev = None
    /\ dtag = None
    /\ dres = None

\* Lines 67-71: the url goes to requests_async.get as it came.
SendGet ==
    /\ pc = "call"
    /\ requests' = Append(requests, Request("GET", url))
    /\ pc' = "await_get"
    /\ UNCHANGED <<url, biggest, response, probe, default_icon, icons, result,
                   result_, error, prev, dtag, dres>>

\* Line 71: requests_async.get raises (no connection, or a url the client
\* refuses); get has no handler, the exception leaves it.
GetRaises ==
    /\ pc = "await_get"
    /\ prev = None
    /\ pc' = "raised"
    /\ error' = "RequestException"
    /\ UNCHANGED <<url, biggest, requests, response, probe, default_icon, icons,
                   result, result_, prev, dtag, dres>>

\* Lines 71-72: a response with an error status; raise_for_status raises.
GetHTTPError ==
    /\ pc = "await_get"
    /\ prev = None
    /\ validate_url(url)
    /\ \E st \in GET_STATUS, fu \in FinalUrls(url) :
          /\ IsHTTPError(st)
          /\ response' = [status_code |-> st, url |-> fu, html |-> {}]
    /\ pc' = "raised"
    /\ error' = "HTTPError"
    /\ UNCHANGED <<url, biggest, requests, probe, default_icon, icons, result,
                   result_, prev, dtag, dres>>

\* Lines 71-76 and 161-164: a response that passes raise_for_status; get
\* goes on into default, which sends the HEAD.
GetOK ==
    /\ pc = "await_get"
    /\ validate_url(url)
    /\ \E st \in GET_STATUS, fu \in FinalUrls(url), html \in PAGES :
          /\ ~IsHTTPError(st)
          /\ prev # None => prev.response = [status_code |-> st, url |-> fu, html |-> html]
          /\ response' = [status_code |-> st, url |-> fu, html |-> html]
          /\ requests' = Append(requests, Request("HEAD", favicon_url(fu)))
    /\ pc' = "await_head"
    /\ UNCHANGED <<url, biggest, probe, default_icon, icons, result, result_,
                   error, prev, dtag, dres>>

\* Line 164: requests_async.head raises; neither default nor get has a
\* handler, the exception leaves get.
HeadRaises ==
    /\ pc = "await_head"
    /\ prev = None
    /\ probe' = [exc |-> "RequestException", status_code |-> 0, url |-> ""]
    /\ pc' = "raised"
    /\ error' = "RequestException"
    /\ UNCHANGED <<url, biggest, requests, response, default_icon, icons, result,
                   result_, prev, dtag, dres>>

\* Lines 164-80 and 144: the HEAD is answered, and dimensions raises for a
\* tag of the page; the exception leaves tags and get.
TagsRaise ==
    /\ pc = "await_head"
    /\ prev = None
    /\ \E link_icons \in {tags(response.url, response.html)} :
          /\ link_icons.exc # ""
          /\ error' = link_icons.exc
    /\ \E head \in HeadResponses(requests[Len(requests)].url) :
          /\ probe' = head
          /\ default_icon' = DefaultIcon(head)
    /\ pc' = "raised"
    /\ UNCHANGED <<url, biggest, requests, response, icons, result, result_,
                   prev, dtag, dres>>

\* Lines 164-98: the HEAD is answered and get runs to its return.
HeadOK ==
    /\ pc = "await_head"
    /\ \E link_icons \in {tags(response.url, response.html)} :
          /\ link_icons.exc = ""
          /\ \E head \in HeadResponses(requests[Len(requests)].url) :
                /\ prev # None => head = prev.probe
                /\ probe' = head
                /\ default_icon' = DefaultIcon(head)
                /\ \E it \in Iterations(Collected(DefaultIcon(head), link_icons.icons)) :
                      /\ icons' = it
                      /\ \E res \in {sorted(it)} :
                            /\ result' = res
                            /\ result_' = Returns(res, biggest)
    /\ pc' = "returned"
    /\ UNCHANGED <<url, biggest, requests, response, error, prev, dtag, dres>>

\* get is called again with the same arguments, and the network answers as
\* it did: the same page, the same final url, the same answer to the HEAD.
Again ==
    /\ pc = "returned"
    /\ prev = None
    /\ prev' = [response |-> response, probe |-> probe, result |-> result,
                result_ |-> result_]
    /\ pc' = "call"
    /\ requests' = <<>>
    /\ response' = None
    /\ probe' = None
    /\ default_icon' = None
    /\ icons' = <<>>
    /\ result' = None
    /\ result_' = None
    /\ UNCHANGED <<url, biggest, error, dtag, dres>>

Next ==
    \/ SendGet
    \/ GetRaises
    \/ GetHTTPError
    \/ GetOK
    \/ HeadRaises
    \/ TagsRaise
    \/ HeadOK
    \/ Again

Spec == Init /\ [][Next]_vars

(***************************************************************************)
(* FaviconManager.dimensions on its own: a static method, applied to a     *)
(* tag drawn from DIM_TAGS.                                                *)
(***************************************************************************)
InitDim ==
    /\ url = ""
    /\ biggest = TRUE
    /\ pc = "call"
    /\ requests = <<>>
    /\ response = None
    /\ probe = None
    /\ default_icon = None
    /\ icons = <<>>
    /\ result = None
    /\ result_ = None
    /\ error = ""
    /\ prev = None
    /\ dtag \in DIM_TAGS
    /\ dres = None

Dimensions ==
    /\ pc = "call"
    /\ \E r \in {dimensions(dtag)} :
          /\ dres' = r
          /\ pc' = IF r.exc = "" THEN "returned" ELSE "raised"
          /\ error' = r.exc
    /\ UNCHANGED <<url, biggest, requests, response, probe, default_icon, icons,
                   result, result_, prev, dtag>>

NextDim == Dimensions

SpecDim == InitDim /\ [][NextDim]_vars

(***************************************************************************)
(* The properties.                                                         *)
(***************************************************************************)
Square(i) == i.width = i.height

Size(i) == i.width + i.height

\* The Icons of the tags of the fetched page.
TagIcons == Range(tags(response.url, response.html).icons)

\* The Icon default gives for the answer of the probe.
ProbeIcon == Icon(probe.url, 0, 0, "ico")

\* C1: in the ranked sequence get produces, every square Icon precedes every
\* Icon that is not square, and among Icons of equal squareness one with a
\* larger width + height precedes one with a smaller; the sequence holds the
\* collected Icons.
C1_Ranking ==
    pc = "returned" =>
        /\ Range(result) = Range(icons)
        /\ \A i, j \in 1..Len(result) :
              i < j => /\ Square(result[j]) => Square(result[i])
                       /\ Square(result[i]) = Square(result[j])
                             => Size(result[i]) >= Size(result[j])

\* A square Icon ranked before a larger Icon that is not square.
C1_Witness ==
    /\ pc = "returned"
    /\ \E i, j \in 1..Len(result) :
          /\ i < j
          /\ Square(result[i])
          /\ ~Square(result[j])
          /\ Size(result[j]) > Size(result[i])

C3_ProbeErrorNotFatal ==
    (probe # None /\ probe.exc # "") =>
        /\ pc = "returned"
        /\ error = ""
        /\ default_icon = None

\* C4: a url with an empty scheme or an empty host makes get fail with
\* InvalidURL before any request is made.
C4_InvalidURL ==
    ~validate_url(url) =>
        /\ requests = <<>>
        /\ pc # "call" => (pc = "raised" /\ error = "InvalidURL")

\* The sizes value of a matched tag is malformed: not empty, not 'any', and
\* its selected token does not split on the separator into exactly two parts
\* with a digit in each.
TwoSizes(parts) ==
    Len(parts) = 2 /\ Digits(parts[1]) # "" /\ Digits(parts[2]) # ""

MalformedSizes(tag) ==
    /\ Get(tag, "sizes") \notin {"", "any"}
    /\ ~TwoSizes(SplitOn(SortStrDesc(SplitOn(Get(tag, "sizes"), {" "}))[1], {"x", MULT}))

\* The tags of the page with a malformed sizes value that reach dimensions.
MalformedTags ==
    {t \in link_tags(response.html) \cup meta_tags(response.html) :
        ~Skipped(t) /\ MalformedSizes(t)}

\* C5: a matched tag with a malformed sizes value never aborts the
\* resolution: once the probe is answered, get returns the result built from
\* the other candidates.
C5_MalformedSizesSkipped ==
    (probe # None /\ probe.exc = "" /\ MalformedTags # {}) =>
        /\ pc = "returned"
        /\ Range(result) =
              (IF default_icon # None THEN {default_icon} ELSE {})
              \cup Range(tags(response.url, response.html \ MalformedTags).icons)

\* C6: two runs of get on the same page, final url and probe outcome return
\* the same result in the same order.
C6_Deterministic ==
    (prev # None /\ pc = "returned") =>
        /\ result = prev.result
        /\ result_ = prev.result_

\* C7: no two entries of a result of get have the same (url, width, height,
\* format): tags, and the default icon, that give the same four fields give
\* one Icon.
C7_Dedup ==
    pc = "returned" =>
        /\ Len(result) = Cardinality(Range(icons))
        /\ \A i, j \in 1..Len(result) : i # j => result[i] # result[j]
        /\ (~biggest /\ result # <<>>) =>
              \A i, j \in DOMAIN result_.favicons :
                  i # j => result_.favicons[i] # result_.favicons[j]

\* A <link> and a <meta> of the page give the same four fields.
C7_Witness ==
    /\ pc = "returned"
    /\ \E t1 \in link_tags(response.html), t2 \in meta_tags(response.html) :
          /\ ~Skipped(t1)
          /\ ~Skipped(t2)
          /\ TagIcon(response.url, t1).icon = TagIcon(response.url, t2).icon

\* What C8 says dimensions returns for a tag with a sizes value: the digits
\* of the two parts of the whitespace-separated token that is first in
\* descending order.
SizedValue(parts) == Returned(int(Digits(parts[1])), int(Digits(parts[2])))

SizedToken(tokens) == SplitOn(SortStrDesc(tokens)[1], {"x", MULT})

\* What C8 says dimensions returns for a tag without one: the groups of the
\* first match of SIZE_RE in href or content, (0, 0) without a match.
UnsizedValue(m) ==
    IF m = <<>> THEN Returned(0, 0) ELSE Returned(int(m[1].width), int(m[1].height))

\* C8: for every tag, dimensions returns the digits of the two parts of the
\* first sizes token in descending order when sizes is not empty and not
\* 'any', and otherwise the groups of the first match of SIZE_RE in the
\* href or content value, (0, 0) when there is none.
C8_Dimensions ==
    dres # None =>
        /\ dres.exc = ""
        /\ (Get(dtag, "sizes") \notin {"", "any"} /\ Words(Get(dtag, "sizes")) # <<>>
              /\ TwoSizes(SizedToken(Words(Get(dtag, "sizes")))))
              => dres = SizedValue(SizedToken(Words(Get(dtag, "sizes"))))
        /\ Get(dtag, "sizes") \in {"", "any"}
              => dres = UnsizedValue(SIZE_RE_search(IF Get(dtag, "href") # ""
                                                    THEN Get(dtag, "href")
                                                    ELSE Get(dtag, "content")))

\* The name or the property of a <meta> is one of META_NAMES, whatever the case.
NamedIn(tag, names) ==
    \E n \in names : Lower(Get(tag, "name")) = Lower(n) \/ Lower(Get(tag, "property")) = Lower(n)

\* C9: a <meta> with a non-empty content is a candidate whenever its name or
\* its property is one of the configured names, whatever the case.
C9_MetaNameOrProperty ==
    response # None =>
        \A t \in response.html :
            (t.name = "meta" /\ Get(t, "content") # "" /\ NamedIn(t, META_NAMES))
                => t \in meta_tags(response.html)

\* scheme://host/favicon.ico of a url.
DefaultOf(p) == p.scheme \o "://" \o p.netloc \o "/favicon.ico"

\* C10: the HEAD probe is sent only after the page GET ended in a success
\* status, to scheme://host/favicon.ico of the GET's final url; the default
\* Icon (0, 0, 'ico') is collected exactly when the probe's status is 200;
\* and a GET that ends in an error status surfaces as an error, with no
\* probe and no result.
C10_Probe ==
    /\ \A k \in 1..Len(requests) :
          requests[k].method = "HEAD" =>
              /\ k = 2
              /\ requests[1] = Request("GET", url)
              /\ response # None
              /\ ~IsHTTPError(response.status_code)
              /\ requests[k].url = DefaultOf(urlparse(response.url, ""))
    /\ pc = "returned" =>
          /\ default_icon # None <=> probe.status_code = 200
          /\ probe.status_code = 200 =>
                /\ default_icon = ProbeIcon
                /\ default_icon \in Range(icons)
                /\ default_icon \in Range(result)
          /\ (probe.status_code # 200 /\ ProbeIcon \in Range(icons)) =>
                ProbeIcon \in TagIcons
    /\ (response # None /\ IsHTTPError(response.status_code)) =>
          /\ pc = "raised"
          /\ error = "HTTPError"
          /\ requests = <<Request("GET", url)>>
          /\ result_ = None

\* The page redirected, the probe of the final host answered 200 and its
\* Icon is in the result.
C10_Witness ==
    /\ pc = "returned"
    /\ response.url # url
    /\ probe.status_code = 200
    /\ default_icon \in Range(result)

====
